---- MODULE Spec2Model ----
(***************************************************************************)
(* fastjson: the Value handle (json.hh), its out-of-line reset/init/clean  *)
(* (json.cc), the Reader and the Writer (json.cc).                         *)
(*                                                                         *)
(* Spec is the Value machine: a few stack handles, the heap of reference    *)
(* counters and of structured payloads, and one action per public          *)
(* operation of Value, run as a program of at most MaxOps calls.  SpecLife *)
(* is the same machine restricted to construct / copy / assign / reset /   *)
(* destroy.                                                                *)
(*                                                                         *)
(* SpecRW is the Reader and the Writer: a stream is read into the Reader's *)
(* buffer and the driver loop calls getValue and putValue until the end of *)
(* input; the parser runs one loop iteration per step.  SpecEsc applies    *)
(* Writer::escapeString and then Reader::unescapeString to a string.       *)
(***************************************************************************)
EXTENDS Integers, Sequences, FiniteSets, TLC

VARIABLES
    hnd,    \* the stack handles: [Handles -> handle record], type "DEAD" before construction
    rcs,    \* heap: the TUInteger counters allocated by `new TUInteger(0)`
    pay,    \* heap: the TString / TObject / TArray payloads
    ub,     \* TRUE once an operation had undefined behaviour (the state shown is one outcome)
    nops,   \* how many operations the program has executed
    last,   \* the operation just executed, with what it was called on and what it returned
    file,   \* the bytes of the stream the Reader is constructed on
    data,   \* Reader::data, the owned buffer, terminator included (parsing writes into it)
    cur,    \* Reader::cur, as an offset into data
    lastbr, \* Reader::lastbr, as an offset into data
    line,   \* Reader::line
    stack,  \* the active calls of getValue / readNumber / readString / readObject / readArray
    result, \* what the last call of getValue (or of unescapeString) gave its caller
    out,    \* the bytes written to the Writer's stream
    vals,   \* the values getValue has returned to the driver, in order
    orig,   \* the value tree the stream was serialized from, when it was
    pc,     \* where the driver is
    wild    \* TRUE once the Reader or the Writer accessed memory it does not own

valueVars == <<hnd, rcs, pay, ub, nops, last>>
rwVars == <<file, data, cur, lastbr, line, stack, result, out, vals, orig, pc, wild>>
vars == <<hnd, rcs, pay, ub, nops, last,
          file, data, cur, lastbr, line, stack, result, out, vals, orig, pc, wild>>

----------------------------------------------------------------------------
(* Bounds of the model *)

NumHandles == 2
MaxCells == 3
MaxArr == 2
MaxScalar == 1
MaxOps == 4

(* TUInteger (unsigned int) counters are kept as their 32-bit pattern read  *)
(* in two's complement: 0 decremented is the pattern 0xFFFFFFFF, written -1, *)
(* and -1 incremented is 0 again.  No run comes near 2^31 references.        *)
UDec(n) == n - 1

UInc(n) == n + 1

Handles == 1..NumHandles
Cells == 1..MaxCells
Scalars == 0..MaxScalar
Strings == {"a", "b"}
Keys == {"k"}

ScalarTags == {"TINTEGER", "TUINTEGER", "TREAL", "TBOOL"}
StructTags == {"TSTRING", "TOBJECT", "TARRAY"}
Type == ScalarTags \cup StructTags \cup {"TNULL"}

(* The union member last written: which bytes `data` holds. *)
DataOf(t) ==
    CASE t = "TINTEGER" -> "integer"
      [] t = "TUINTEGER" -> "uinteger"
      [] t = "TREAL" -> "real"
      [] t = "TBOOL" -> "boolean"
      [] OTHER -> "ptr"

(* class Value: refcount, type, data.  rc = 0 is the NULL refcount pointer; *)
(* k names the union member that was last written and v its value (a        *)
(* scalar, or the payload's address when k = "ptr").                        *)
Value(t, r, k, v) == [type |-> t, rc |-> r, k |-> k, v |-> v]

Dead == Value("DEAD", 0, "none", 0)

\* Value() : refcount(NULL), type(TNULL) { }   -- data is left uninitialised
NullValue == Value("TNULL", 0, "none", 0)

\* explicit Value(TInteger) / (TUInteger) / (TReal) / (TBool) : refcount(NULL)
ScalarValue(t, v) == Value(t, 0, DataOf(t), v)

EmptyObj == [x \in {} |-> NullValue]

FreeRc == [st |-> "unalloc", n |-> 0]
FreePay == [st |-> "unalloc", kind |-> "none", str |-> "", arr |-> <<>>, obj |-> EmptyObj]

Heap(r, p, u) == [rcs |-> r, pay |-> p, ub |-> u]

Min(S) == CHOOSE x \in S : \A y \in S : x <= y

(* operator new.  A freed address is handed out again only when nothing     *)
(* points at it any more (see Release), so a dangling pointer stays         *)
(* recognisable for as long as it exists.                                   *)
FreshRc(H) ==
    LET free == {c \in Cells : H.rcs[c].st = "unalloc"}
    IN IF free = {} THEN 0 ELSE Min(free)

FreshPay(H) ==
    LET free == {c \in Cells : H.pay[c].st = "unalloc"}
    IN IF free = {} THEN 0 ELSE Min(free)

(* A pointer dereference that is undefined (a pointer overwritten through   *)
(* the union, a pointer to freed storage): the state is marked, and the     *)
(* wild access may also hit one live payload w (w = 0: it hits nothing).    *)
Wild(H, w) ==
    [H EXCEPT !.ub = TRUE,
              !.pay = IF w \in Cells /\ H.pay[w].st = "live"
                      THEN [H.pay EXCEPT ![w].st = "freed"]
                      ELSE H.pay]

\* whether handle x points at a live payload of the kind its tag names
ValidPtr(H, x) ==
    /\ x.k = "ptr"
    /\ x.v \in Cells
    /\ H.pay[x.v].st = "live"
    /\ H.pay[x.v].kind = x.type

SetToSeq(S) ==
    LET RECURSIVE go(_)
        go(T) == IF T = {} THEN <<>>
                 ELSE LET m == CHOOSE y \in T : TRUE IN <<m>> \o go(T \ {m})
    IN go(S)

\* the Values a payload contains (vector elements, map values)
Contained(p) ==
    IF p.kind = "TARRAY" THEN p.arr
    ELSE IF p.kind = "TOBJECT" THEN [i \in 1..Len(SetToSeq(DOMAIN p.obj)) |-> p.obj[SetToSeq(DOMAIN p.obj)[i]]]
    ELSE <<>>

RECURSIVE decref(_, _, _)
RECURSIVE clean(_, _, _)
RECURSIVE destroyAll(_, _, _)

\* inline void incref() { if (refcount) (*refcount)++; }
incref(H, x, w) ==
    IF x.rc = 0 THEN H
    ELSE IF x.rc \notin Cells \/ H.rcs[x.rc].st # "live" THEN Wild(H, w)
    ELSE [H EXCEPT !.rcs[x.rc].n = UInc(H.rcs[x.rc].n)]

\* inline void decref() { if (refcount && !((*refcount)--)) clean(); }
decref(H, x, w) ==
    IF x.rc = 0 THEN H
    ELSE IF x.rc \notin Cells \/ H.rcs[x.rc].st # "live" THEN Wild(H, w)
    ELSE LET n == H.rcs[x.rc].n
             H1 == [H EXCEPT !.rcs[x.rc].n = UDec(n)]
         IN IF n = 0 THEN clean(H1, x, w) ELSE H1

\* void Value::clean(): delete refcount; delete the payload and what it contains
clean(H, x, w) ==
    LET H1 == [H EXCEPT !.rcs[x.rc].st = "freed"]
    IN IF x.type \notin StructTags THEN H1
       ELSE IF ~ValidPtr(H1, x) THEN Wild(H1, w)
       ELSE LET H2 == destroyAll(H1, Contained(H1.pay[x.v]), w)
            IN [H2 EXCEPT !.pay[x.v].st = "freed"]

\* ~Value() of every contained Value
destroyAll(H, xs, w) ==
    IF xs = <<>> THEN H
    ELSE destroyAll(decref(H, Head(xs), w), Tail(xs), w)

(* The handle's own fields after decref(): clean() ends with type = TNULL;   *)
(* refcount = NULL.  data keeps the bytes of the deleted pointer, which no   *)
(* getter can reach under tag null: they are shown as indeterminate.         *)
afterDecref(H, x) ==
    IF x.rc \in Cells /\ H.rcs[x.rc].st = "live" /\ H.rcs[x.rc].n = 0
    THEN Value("TNULL", 0, "none", 0)
    ELSE x

----------------------------------------------------------------------------
(* Allocation *)

newRc(H) == [H EXCEPT !.rcs[FreshRc(H)] = [st |-> "live", n |-> 0]]

newPay(H, kind, str, arr) ==
    [H EXCEPT !.pay[FreshPay(H)] =
        [st |-> "live", kind |-> kind, str |-> str, arr |-> arr, obj |-> EmptyObj]]

CanAlloc(H, nRc, nPay) ==
    /\ Cardinality({c \in Cells : H.rcs[c].st = "unalloc"}) >= nRc
    /\ Cardinality({c \in Cells : H.pay[c].st = "unalloc"}) >= nPay

Cur == Heap(rcs, pay, ub)

Live(h) == hnd[h].type # "DEAD"

\* the program is still running and has calls left to make
Running == ~ub /\ nops < MaxOps

\* the choices of the wild access: enumerated only where the operation is undefined
Oracle(H) == IF H.ub THEN 0..MaxCells ELSE {0}

NoResult == [some |-> FALSE]

Result(v) == [some |-> TRUE, val |-> v]

Call(op, h, t, g, arg, err, ret) ==
    [op |-> op, h |-> h, t |-> t, g |-> g, arg |-> arg, err |-> err, ret |-> ret]

Op(op, h, t, g, arg, err) == Call(op, h, t, g, arg, err, NoResult)

\* every Value that exists: the stack handles and what live payloads contain
AllValues(hs, ps) ==
    {hs[h] : h \in Handles}
        \cup UNION {{Contained(ps[c])[i] : i \in 1..Len(Contained(ps[c]))} :
                        c \in {d \in Cells : ps[d].st = "live"}}

(* The allocator may hand a freed address out again: freed storage that no  *)
(* Value points at goes back to the free list.                              *)
Release(H, hs) ==
    LET all == AllValues(hs, H.pay)
        rcRef == {x.rc : x \in all}
        payRef == {x.v : x \in {y \in all : y.k = "ptr"}}
    IN [H EXCEPT
          !.rcs = [c \in Cells |->
                     IF H.rcs[c].st = "freed"
                     THEN (IF c \in rcRef THEN [st |-> "freed", n |-> 0] ELSE FreeRc)
                     ELSE H.rcs[c]],
          !.pay = [c \in Cells |->
                     IF H.pay[c].st = "freed"
                     THEN (IF c \in payRef THEN [FreePay EXCEPT !.st = "freed"] ELSE FreePay)
                     ELSE H.pay[c]]]

Commit(H, newHnd, l) ==
    LET R == Release(H, newHnd)
    IN /\ hnd' = newHnd
       /\ rcs' = R.rcs
       /\ pay' = R.pay
       /\ ub' = H.ub
       /\ nops' = nops + 1
       /\ last' = l
       /\ UNCHANGED rwVars

----------------------------------------------------------------------------
(* void Value::init(): the default payload of a structured tag; a scalar or *)
(* null tag leaves data as it was, bytes of another union member that are   *)
(* shown as indeterminate.                                                  *)
init(H, x) ==
    IF x.type \in StructTags
    THEN [heap |-> newPay(H, x.type, "", <<>>),
          val |-> [x EXCEPT !.k = "ptr", !.v = FreshPay(H)]]
    ELSE [heap |-> H, val |-> [x EXCEPT !.k = "none", !.v = 0]]

(* void Value::reset(Type type):                                            *)
(*   if (refcount) decref(); refcount = new TUInteger(0);                   *)
(*   this->type = type; init();                                             *)
reset(H, x, t, w) ==
    LET H1 == IF x.rc # 0 THEN decref(H, x, w) ELSE H
        H2 == newRc(H1)
        x2 == [x EXCEPT !.rc = FreshRc(H1), !.type = t]
    IN init(H2, x2)

\* inline void checkTypeReset(Type type) { if (this->type != type) reset(TOBJECT); }
checkTypeReset(H, x, t, w) ==
    IF x.type # t THEN reset(H, x, "TOBJECT", w) ELSE [heap |-> H, val |-> x]

\* a checkType that lets a scalar getter through on any scalar tag
checkTypeAnyScalar(x, t) == x.type = t \/ (x.type \in ScalarTags /\ t \in ScalarTags)

\* inline void checkType(Type type): throws when the tags differ
checkType(x, t) == x.type = t

(* Value& operator=(const Value& other):                                    *)
(*   decref(); data = other.data; type = other.type;                        *)
(*   refcount = other.refcount; incref();                                   *)
(* `other` is a reference: it is read after decref() has run.  otherAfter   *)
(* is what that read yields.                                                *)
assign(H1, otherAfter, w) ==
    [heap |-> incref(H1, otherAfter, w), val |-> otherAfter]

\* what a read of a destroyed Value can yield: the bytes its destructor left, or anything
StaleOf(H1, e) ==
    IF e.rc \in Cells /\ H1.rcs[e.rc].st = "freed"
    THEN Value("TNULL", 0, "none", 0)
    ELSE e

FreedRead(H1, e) ==
    {StaleOf(H1, e)} \cup {Value(t, r, "none", 0) : t \in Type, r \in 0..MaxCells}

----------------------------------------------------------------------------
(* The Value machine: construction and destruction *)

\* Value()
ConstructNull(h) ==
    /\ Running /\ ~Live(h)
    /\ Commit(Cur, [hnd EXCEPT ![h] = NullValue], Op("Value()", h, "TNULL", 0, 0, ""))

\* explicit Value(TInteger) / Value(TUInteger) / Value(TReal) / Value(TBool)
ConstructScalar(h, t, v) ==
    /\ Running /\ ~Live(h)
    /\ Commit(Cur, [hnd EXCEPT ![h] = ScalarValue(t, v)], Op("Value(scalar)", h, t, 0, v, ""))

\* explicit Value(TString string) : refcount(new TUInteger(0)), type(TSTRING)
ConstructString(h, s) ==
    /\ Running /\ ~Live(h) /\ CanAlloc(Cur, 1, 1)
    /\ LET H1 == newPay(newRc(Cur), "TSTRING", s, <<>>)
           x == Value("TSTRING", FreshRc(Cur), "ptr", FreshPay(Cur))
       IN Commit(H1, [hnd EXCEPT ![h] = x], Op("Value(TString)", h, "TSTRING", 0, 0, ""))

\* explicit Value(TObject object), called with an empty map
ConstructObject(h) ==
    /\ Running /\ ~Live(h) /\ CanAlloc(Cur, 1, 1)
    /\ LET H1 == newPay(newRc(Cur), "TOBJECT", "", <<>>)
           x == Value("TOBJECT", FreshRc(Cur), "ptr", FreshPay(Cur))
       IN Commit(H1, [hnd EXCEPT ![h] = x], Op("Value(TObject)", h, "TOBJECT", 0, 0, ""))

RECURSIVE increfAll(_, _)
increfAll(H, xs) ==
    IF xs = <<>> THEN H ELSE increfAll(incref(H, Head(xs), 0), Tail(xs))

(* explicit Value(TArray array): data.array = new TArray(array).  The vector *)
(* holds copies of the handles gs, so the new array's elements are copies    *)
(* of them (the caller's vector and the by-value parameter are destroyed     *)
(* again, which leaves one reference per element).                           *)
ConstructArray(h, gs) ==
    /\ Running /\ ~Live(h) /\ CanAlloc(Cur, 1, 1)
    /\ \A i \in 1..Len(gs) : Live(gs[i])
    /\ LET elems == [i \in 1..Len(gs) |-> hnd[gs[i]]]
           H1 == newPay(newRc(Cur), "TARRAY", "", elems)
           H2 == increfAll(H1, elems)
           x == Value("TARRAY", FreshRc(Cur), "ptr", FreshPay(Cur))
       IN Commit(H2, [hnd EXCEPT ![h] = x], Op("Value(TArray)", h, "TARRAY", 0, Len(gs), ""))

\* Value(const Value &other) : type(other.type), data(other.data), refcount(other.refcount) { incref(); }
CopyConstruct(h, g) ==
    /\ Running /\ ~Live(h) /\ Live(g)
    /\ Commit(incref(Cur, hnd[g], 0), [hnd EXCEPT ![h] = hnd[g]],
              Op("Value(const Value&)", h, hnd[g].type, g, 0, ""))

\* ~Value() { decref(); }
Destroy(h) ==
    /\ Running /\ Live(h)
    /\ \E w \in Oracle(decref(Cur, hnd[h], 0)) :
         Commit(decref(Cur, hnd[h], w), [hnd EXCEPT ![h] = Dead],
                Op("~Value()", h, hnd[h].type, 0, 0, ""))

----------------------------------------------------------------------------
(* Assignment *)

\* a = b, both stack handles (a and b may be the same handle)
Assign(h, g) ==
    /\ Running /\ Live(h) /\ Live(g)
    /\ \E w \in Oracle(decref(Cur, hnd[h], 0)) :
         LET H1 == decref(Cur, hnd[h], w)
             other == IF g = h THEN afterDecref(Cur, hnd[h]) ELSE hnd[g]
             r == assign(H1, other, w)
         IN Commit(r.heap, [hnd EXCEPT ![h] = r.val], Op("operator=", h, hnd[g].type, g, 0, ""))

(* a = b.getIndex(i), i.e. a = b[i]: getIndex returns a reference to the     *)
(* element, which operator= reads after a's decref().  When that decref     *)
(* freed the array the element lives in, the read is of freed storage.      *)
AssignIndex(h, g, i) ==
    /\ Running /\ Live(h) /\ Live(g)
    /\ checkType(hnd[g], "TARRAY") /\ ValidPtr(Cur, hnd[g])
    /\ i < Len(pay[hnd[g].v].arr)
    /\ LET p == hnd[g].v
           e == pay[p].arr[i + 1]
           H1 == decref(Cur, hnd[h], 0)
       IN IF H1.pay[p].st = "live"
          THEN LET r == assign(H1, e, 0)
               IN Commit(r.heap, [hnd EXCEPT ![h] = r.val], Op("operator=[]", h, e.type, g, i, ""))
          ELSE \E x \in FreedRead(H1, e) :
                 LET r == assign(Wild(H1, 0), x, 0)
                 IN Commit(r.heap, [hnd EXCEPT ![h] = r.val], Op("operator=[]", h, e.type, g, i, ""))

\* void reset(Type type)
Reset(h, t) ==
    /\ Running /\ Live(h) /\ CanAlloc(Cur, 1, 1)
    /\ \E w \in Oracle(reset(Cur, hnd[h], t, 0).heap) :
         LET r == reset(Cur, hnd[h], t, w)
         IN Commit(r.heap, [hnd EXCEPT ![h] = r.val], Op("reset", h, t, 0, 0, ""))

----------------------------------------------------------------------------
(* Setters *)

(* setInteger / setUINteger / setReal / setReal(TBool):                     *)
(*   { checkTypeReset(T); data.<member> = value; }                          *)
(* After a reset the store overwrites the pointer init() has just put into  *)
(* the union: the fresh payload is lost and data holds the scalar.          *)
setScalar(H, x, t, v, w) ==
    LET r == checkTypeReset(H, x, t, w)
    IN [heap |-> r.heap, val |-> [r.val EXCEPT !.k = DataOf(t), !.v = v]]

SetterName(t) ==
    CASE t = "TINTEGER" -> "setInteger"
      [] t = "TUINTEGER" -> "setUINteger"
      [] t = "TREAL" -> "setReal"
      [] t = "TBOOL" -> "setReal(TBool)"
      [] t = "TSTRING" -> "setString"
      [] OTHER -> "set"

SetScalar(h, t, v) ==
    /\ Running /\ Live(h) /\ CanAlloc(Cur, 1, 1)
    /\ \E w \in Oracle(setScalar(Cur, hnd[h], t, v, 0).heap) :
         LET r == setScalar(Cur, hnd[h], t, v, w)
         IN Commit(r.heap, [hnd EXCEPT ![h] = r.val], Op(SetterName(t), h, t, 0, v, ""))

\* setString(TString string) { checkTypeReset(TSTRING); *data.string = string; }
(* After a reset to TOBJECT the store goes through a TObject* read as a      *)
(* TString*: undefined.                                                      *)
setString(H, x, s, w) ==
    LET r == checkTypeReset(H, x, "TSTRING", w)
    IN IF r.val.type = "TSTRING" /\ ValidPtr(r.heap, r.val)
       THEN [heap |-> [r.heap EXCEPT !.pay[r.val.v].str = s], val |-> r.val]
       ELSE [heap |-> Wild(r.heap, w), val |-> r.val]

SetString(h, s) ==
    /\ Running /\ Live(h) /\ CanAlloc(Cur, 1, 1)
    /\ \E w \in Oracle(setString(Cur, hnd[h], s, 0).heap) :
         LET r == setString(Cur, hnd[h], s, w)
         IN Commit(r.heap, [hnd EXCEPT ![h] = r.val], Op("setString", h, "TSTRING", 0, s, ""))

\* std::map::operator[]: the entry for key, default-constructed (null) when absent
Entry(m, key) == IF key \in DOMAIN m THEN m[key] ELSE NullValue

Put(m, key, x) == [j \in DOMAIN m \cup {key} |-> IF j = key THEN x ELSE m[j]]

\* setMember(TString key, Value value) { checkTypeReset(TOBJECT); (*data.object)[key] = value; }
(* value is a by-value parameter: a copy of the caller's handle, made before *)
(* the body runs and destroyed after it.                                     *)
setMember(H, x, key, arg, w) ==
    LET H0 == incref(H, arg, w)
        r == checkTypeReset(H0, x, "TOBJECT", w)
    IN IF ~ValidPtr(r.heap, r.val)
       THEN [heap |-> Wild(r.heap, w), val |-> r.val]
       ELSE LET p == r.val.v
                old == Entry(r.heap.pay[p].obj, key)
                a == assign(decref(r.heap, old, w), arg, w)
                H3 == [a.heap EXCEPT !.pay[p].obj = Put(a.heap.pay[p].obj, key, a.val)]
            IN [heap |-> decref(H3, arg, w), val |-> r.val]

SetMember(h, key, g) ==
    /\ Running /\ Live(h) /\ Live(g) /\ CanAlloc(Cur, 1, 1)
    /\ \E w \in Oracle(setMember(Cur, hnd[h], key, hnd[g], 0).heap) :
         LET r == setMember(Cur, hnd[h], key, hnd[g], w)
         IN Commit(r.heap, [hnd EXCEPT ![h] = r.val], Op("setMember", h, "TOBJECT", g, key, ""))

\* std::vector::resize: the tail is destroyed, or null Values are appended
resize(H, p, n, w) ==
    LET a == H.pay[p].arr
    IN IF n <= Len(a)
       THEN [destroyAll(H, SubSeq(a, n + 1, Len(a)), w) EXCEPT !.pay[p].arr = SubSeq(a, 1, n)]
       ELSE [H EXCEPT !.pay[p].arr = a \o [i \in 1..(n - Len(a)) |-> NullValue]]

\* setArraySize(size_t size) { checkTypeReset(TARRAY); data.array->resize(size); }
setArraySize(H, x, n, w) ==
    LET r == checkTypeReset(H, x, "TARRAY", w)
    IN IF r.val.type = "TARRAY" /\ ValidPtr(r.heap, r.val)
       THEN [heap |-> resize(r.heap, r.val.v, n, w), val |-> r.val]
       ELSE [heap |-> Wild(r.heap, w), val |-> r.val]

SetArraySize(h, n) ==
    /\ Running /\ Live(h) /\ CanAlloc(Cur, 1, 1)
    /\ \E w \in Oracle(setArraySize(Cur, hnd[h], n, 0).heap) :
         LET r == setArraySize(Cur, hnd[h], n, w)
         IN Commit(r.heap, [hnd EXCEPT ![h] = r.val], Op("setArraySize", h, "TARRAY", 0, n, ""))

\* setIndex(size_t index, Value value) { checkTypeReset(TARRAY); (*data.array)[index] = value; }
setIndex(H, x, i, arg, w) ==
    LET H0 == incref(H, arg, w)
        r == checkTypeReset(H0, x, "TARRAY", w)
    IN IF ~(r.val.type = "TARRAY" /\ ValidPtr(r.heap, r.val))
       THEN [heap |-> Wild(r.heap, w), val |-> r.val]
       ELSE LET p == r.val.v
                old == r.heap.pay[p].arr[i + 1]
                a == assign(decref(r.heap, old, w), arg, w)
                H3 == [a.heap EXCEPT !.pay[p].arr[i + 1] = a.val]
            IN [heap |-> decref(H3, arg, w), val |-> r.val]

\* the index is one the array has: operator[] past the end is not called
SetIndex(h, i, g) ==
    /\ Running /\ Live(h) /\ Live(g) /\ CanAlloc(Cur, 1, 1)
    /\ (hnd[h].type = "TARRAY" /\ ValidPtr(Cur, hnd[h])) => i < Len(pay[hnd[h].v].arr)
    /\ \E w \in Oracle(setIndex(Cur, hnd[h], i, hnd[g], 0).heap) :
         LET r == setIndex(Cur, hnd[h], i, hnd[g], w)
         IN Commit(r.heap, [hnd EXCEPT ![h] = r.val], Op("setIndex", h, "TARRAY", g, i, ""))

----------------------------------------------------------------------------
(* Getters *)

Getters == {"getInteger", "getUInteger", "getReal", "getBool", "getString",
            "getMember", "getArraySize", "getIndex"}

\* the tag each getter hands to checkType
GetterTag(name) ==
    CASE name = "getInteger" -> "TINTEGER"
      [] name = "getUInteger" -> "TUINTEGER"
      [] name = "getReal" -> "TREAL"
      [] name = "getBool" -> "TBOOL"
      [] name = "getString" -> "TSTRING"
      [] name = "getMember" -> "TOBJECT"
      [] OTHER -> "TARRAY"

(* What the getter's body does once checkType has passed: the heap after it *)
(* (getMember inserts a null entry for an absent key) and what it returns.  *)
getBody(H, x, name, key, i, w) ==
    IF GetterTag(name) \in ScalarTags
    THEN [heap |-> H, ret |-> Result(x.v)]
    ELSE IF ~ValidPtr(H, x) THEN [heap |-> Wild(H, w), ret |-> NoResult]
    ELSE CASE name = "getString" -> [heap |-> H, ret |-> Result(H.pay[x.v].str)]
           [] name = "getArraySize" -> [heap |-> H, ret |-> Result(Len(H.pay[x.v].arr))]
           [] name = "getIndex" -> [heap |-> H, ret |-> Result(H.pay[x.v].arr[i + 1])]
           [] OTHER ->
                [heap |-> [H EXCEPT !.pay[x.v].obj = Put(H.pay[x.v].obj, key, Entry(H.pay[x.v].obj, key))],
                 ret |-> Result(Entry(H.pay[x.v].obj, key))]

(* inline T getX() { checkType(TX); return ...; }                           *)
(* checkType throws std::runtime_error("JSON Value is not of the requested   *)
(* type") before the body touches anything.                                  *)
getter(H, x, name, key, i, w) ==
    IF ~checkType(x, GetterTag(name))
    THEN [heap |-> H, err |-> "TypeMismatch", ret |-> NoResult]
    ELSE LET b == getBody(H, x, name, key, i, w)
         IN [heap |-> b.heap, err |-> "", ret |-> b.ret]

\* an index passed to getIndex is one the array has
Get(h, name, key, i) ==
    /\ Running /\ Live(h)
    /\ (name = "getIndex" /\ hnd[h].type = "TARRAY" /\ ValidPtr(Cur, hnd[h]))
          => i < Len(pay[hnd[h].v].arr)
    /\ \E w \in Oracle(getter(Cur, hnd[h], name, key, i, 0).heap) :
         LET r == getter(Cur, hnd[h], name, key, i, w)
         IN Commit(r.heap, hnd, Call(name, h, GetterTag(name), 0, i, r.err, r.ret))

----------------------------------------------------------------------------
(* The values the Reader builds and the Writer prints, as trees.  A real is *)
(* the decimal (-1)^neg * m / 10^k, which is exact for the short numerals   *)
(* of the model.  s holds a string's bytes, a an array's elements, o an     *)
(* object's members in key order.                                           *)

NoReal == [neg |-> FALSE, m |-> 0, k |-> 0]
Tree(t, n, r, s, a, o) == [type |-> t, n |-> n, r |-> r, s |-> s, a |-> a, o |-> o]
IntTree(n) == Tree("TINTEGER", n, NoReal, <<>>, <<>>, <<>>)
UIntTree(n) == Tree("TUINTEGER", n, NoReal, <<>>, <<>>, <<>>)
RealTree(r) == Tree("TREAL", 0, r, <<>>, <<>>, <<>>)
BoolTree(b) == Tree("TBOOL", b, NoReal, <<>>, <<>>, <<>>)
StringTree(s) == Tree("TSTRING", 0, NoReal, s, <<>>, <<>>)
ArrayTree(a) == Tree("TARRAY", 0, NoReal, <<>>, a, <<>>)
ObjectTree(o) == Tree("TOBJECT", 0, NoReal, <<>>, <<>>, o)
NullTree == Tree("TNULL", 0, NoReal, <<>>, <<>>, <<>>)
\* a null Value* (what getValue returns at the end of input)
NullPtr == Tree("NULL", 0, NoReal, <<>>, <<>>, <<>>)
\* no tree at all: the stream was not serialized from one
NoTree == Tree("NONE", 0, NoReal, <<>>, <<>>, <<>>)

\* what a call gave its caller: nothing yet, a value, the end of input, or a parser_error
NoRet == [kind |-> "none", val |-> NoTree, msg |-> "", line |-> 0, pos |-> 0]
Returned(v) == [kind |-> "value", val |-> v, msg |-> "", line |-> 0, pos |-> 0]
EndOfInput == [kind |-> "eof", val |-> NullPtr, msg |-> "", line |-> 0, pos |-> 0]
Thrown(l, p, msg) == [kind |-> "error", val |-> NoTree, msg |-> msg, line |-> l, pos |-> p]

\* no Reader and no Writer exists
RWIdle ==
    /\ file = <<>> /\ data = <<>> /\ cur = 0 /\ lastbr = 0 /\ line = 0
    /\ stack = <<>> /\ result = NoRet /\ out = <<>> /\ vals = <<>>
    /\ orig = NoTree /\ pc = "idle" /\ wild = FALSE

----------------------------------------------------------------------------
(* The Value machine *)

Empty == [h \in Handles |-> Dead]

\* no Value has been constructed
ValueInit ==
    /\ hnd = Empty
    /\ rcs = [c \in Cells |-> FreeRc]
    /\ pay = [c \in Cells |-> FreePay]
    /\ ub = FALSE
    /\ nops = 0
    /\ last = Op("start", 0, "TNULL", 0, 0, "")

Init == ValueInit /\ RWIdle

HandleSeqs == UNION {[1..n -> Handles] : n \in 0..MaxArr}

NextLife ==
    \/ \E h \in Handles : ConstructNull(h)
    \/ \E h \in Handles, t \in ScalarTags, v \in Scalars : ConstructScalar(h, t, v)
    \/ \E h \in Handles, s \in Strings : ConstructString(h, s)
    \/ \E h \in Handles : ConstructObject(h)
    \/ \E h \in Handles, gs \in HandleSeqs : ConstructArray(h, gs)
    \/ \E h, g \in Handles : CopyConstruct(h, g)
    \/ \E h \in Handles : Destroy(h)
    \/ \E h, g \in Handles : Assign(h, g)
    \/ \E h, g \in Handles, i \in 0..(MaxArr - 1) : AssignIndex(h, g, i)
    \/ \E h \in Handles, t \in Type : Reset(h, t)

SpecLife == Init /\ [][NextLife]_vars

Next ==
    \/ NextLife
    \/ \E h \in Handles, t \in ScalarTags, v \in Scalars : SetScalar(h, t, v)
    \/ \E h \in Handles, x \in Strings : SetString(h, x)
    \/ \E h, g \in Handles, key \in Keys : SetMember(h, key, g)
    \/ \E h \in Handles, n \in 0..MaxArr : SetArraySize(h, n)
    \/ \E h, g \in Handles, i \in 0..(MaxArr - 1) : SetIndex(h, i, g)
    \/ \E h \in Handles, name \in Getters, key \in Keys, i \in 0..(MaxArr - 1) : Get(h, name, key, i)

Spec == Init /\ [][Next]_vars

----------------------------------------------------------------------------
(* Properties of the Value machine *)

Setters == {"setInteger", "setUINteger", "setReal", "setReal(TBool)",
            "setString", "setMember", "setArraySize", "setIndex"}

\* the getter that reads what a setter writes
Matching(op) ==
    CASE op = "setInteger" -> "getInteger"
      [] op = "setUINteger" -> "getUInteger"
      [] op = "setReal" -> "getReal"
      [] op = "setReal(TBool)" -> "getBool"
      [] op = "setString" -> "getString"
      [] op = "setMember" -> "getMember"
      [] op = "setArraySize" -> "getArraySize"
      [] OTHER -> "getIndex"

\* g is a copy of h that shares h's counter
Aliases(h, g) == g # h /\ Live(g) /\ hnd[h].rc # 0 /\ hnd[g] = hnd[h]

\* what a call of the getter on Value x returns in heap H
Read(H, x, name, key, i) == getter(H, x, name, key, i, 0)

\* how many Values hold counter c: stack handles and the Values inside live payloads
RefsTo(hs, ps, c) ==
    Cardinality({h \in Handles : hs[h].rc = c})
      + Cardinality({q \in Cells \X (1..(MaxArr + 1)) :
                        /\ ps[q[1]].st = "live"
                        /\ q[2] <= Len(Contained(ps[q[1]]))
                        /\ Contained(ps[q[1]])[q[2]].rc = c})

\* Value x points at nothing freed, and at a payload of its tag when the tag is structured
Sound(H, x) ==
    /\ x.rc # 0 => (x.rc \in Cells /\ H.rcs[x.rc].st = "live")
    /\ x.type \in StructTags => ValidPtr(H, x)

\* every Value, in a handle or inside a live payload, is sound
AllSound == \A x \in AllValues(hnd, pay) : Sound(Cur, x)

\* the key, the index and the value a setter call recorded in l wrote
KeyOf(l) == IF l.op = "setMember" THEN l.arg ELSE "k"
IndexOf(l) == IF l.op = "setIndex" THEN l.arg ELSE 0
Written(l, hs) == IF l.op \in {"setMember", "setIndex"} THEN hs[l.g] ELSE l.arg

\* the handle's payload is the default init() builds, and only the handle holds it
FreshDefault(hs, H, h) ==
    LET x == hs[h]
    IN /\ ValidPtr(H, x)
       /\ H.pay[x.v].str = "" /\ H.pay[x.v].arr = <<>> /\ H.pay[x.v].obj = EmptyObj
       /\ RefsTo(hs, H.pay, x.rc) = 1
       /\ \A y \in AllValues([hs EXCEPT ![h] = Dead], H.pay) : ~(y.k = "ptr" /\ y.v = x.v)

(* C1: after a copy, a mutation of a string, object or array through one    *)
(* handle (setString, setMember, setArraySize, setIndex on a handle of that *)
(* tag) is defined and is what the matching getter reads through every      *)
(* other handle that shares the payload; a set on one handle leaves every   *)
(* other handle of scalar tag with its tag and scalar.                       *)
C1_SharedMutationObserved ==
    [][ /\ (last'.op \in {"setString", "setMember", "setArraySize", "setIndex"}
              /\ hnd[last'.h].type = last'.t) =>
             \A g \in Handles : Aliases(last'.h, g) =>
                /\ ~ub'
                /\ Read(Cur', hnd'[g], Matching(last'.op), KeyOf(last'), IndexOf(last')).ret
                      = Result(Written(last', hnd))
        /\ last'.op \in Setters =>
             \A g \in Handles : (g # last'.h /\ hnd[g].type \in ScalarTags) => hnd'[g] = hnd[g]
      ]_vars

(* C2: after any sequence of construct, copy, assign, reset and destroy,    *)
(* every live counter holds the number of Values that share it minus one,   *)
(* no Value refers to a freed counter or payload, and every payload that is *)
(* still allocated has a Value referring to it.                              *)
C2_CountAndSingleFree ==
    /\ \A c \in Cells : rcs[c].st = "live" => rcs[c].n = RefsTo(hnd, pay, c) - 1
    /\ AllSound
    /\ \A p \in Cells : pay[p].st = "live" =>
          \E x \in AllValues(hnd, pay) : x.k = "ptr" /\ x.v = p

(* C3: an assignment a = b, b being any handle (a itself included) or an    *)
(* element of an array handle's payload (a's own included), leaves a with   *)
(* the tag and payload b had before it, is defined, and leaves no Value     *)
(* referring to freed storage.                                               *)
C3_AssignTakesSource ==
    [][ /\ last'.op = "operator=" =>
              hnd'[last'.h] = hnd[last'.g] /\ ~ub' /\ AllSound'
        /\ last'.op = "operator=[]" =>
              /\ hnd'[last'.h] = pay[hnd[last'.g].v].arr[last'.arg + 1]
              /\ ~ub' /\ AllSound'
      ]_vars

(* C4: in every defined reachable state a Value holds a counter if and only *)
(* if its tag is string, object or array.                                    *)
C4_CounterIffStructured ==
    ub \/ \A x \in AllValues(hnd, pay) :
             x.type # "DEAD" => ((x.rc # 0) <=> (x.type \in StructTags))

(* C5: a setter called on a Value whose tag differs from the setter's tag   *)
(* leaves the Value with the setter's tag, and the matching getter returns  *)
(* what was written.                                                         *)
C5_SetterResetsToOwnTag ==
    [][ (last'.op \in Setters /\ hnd[last'.h].type # last'.t) =>
           /\ hnd'[last'.h].type = last'.t
           /\ Read(Cur', hnd'[last'.h], Matching(last'.op), KeyOf(last'), IndexOf(last')).ret
                 = Result(Written(last', hnd))
      ]_vars

(* C6: a getter called on a Value whose tag differs from the getter's tag   *)
(* fails with TypeMismatch, returns nothing, and leaves every handle,       *)
(* counter and payload as it was.                                            *)
C6_WrongGetterThrows ==
    [][ (last'.op \in Getters /\ hnd[last'.h].type # GetterTag(last'.op)) =>
           /\ last'.err = "TypeMismatch"
           /\ ~last'.ret.some
           /\ hnd' = hnd /\ rcs' = rcs /\ pay' = pay /\ ub' = ub
      ]_vars

\* a getter has just been refused on a handle of another tag
C6_Witness ==
    /\ last.op \in Getters
    /\ Live(last.h) /\ hnd[last.h].type # GetterTag(last.op)
    /\ last.err = "TypeMismatch"

(* C7: reset(T) on a handle in any state is defined and leaves it with tag  *)
(* T; for a structured T its payload is a fresh empty default no other      *)
(* Value refers to; every other handle that shared the old payload keeps    *)
(* its tag, its payload and the payload's content.                           *)
C7_ResetFreshDefault ==
    [][ last'.op = "reset" =>
          /\ ~ub'
          /\ hnd'[last'.h].type = last'.t
          /\ last'.t \in StructTags => FreshDefault(hnd', Cur', last'.h)
          /\ \A g \in Handles : Aliases(last'.h, g) =>
                /\ hnd'[g] = hnd[g]
                /\ Sound(Cur', hnd'[g])
                /\ hnd[g].k = "ptr" => pay'[hnd[g].v] = pay[hnd[g].v]
      ]_vars

----------------------------------------------------------------------------
(* Bytes.  A char is its code 0..255; the names are the character literals  *)
(* of json.cc.                                                               *)

NUL == 0
BS == 8
TAB == 9
LF == 10
FF == 12
CR == 13
SP == 32
DQUOTE == 34
PLUS == 43
COMMA == 44
MINUS == 45
DOT == 46
SLASH == 47
DIGIT0 == 48
DIGIT9 == 57
COLON == 58
UPPER_L == 76
UPPER_N == 78
UPPER_U == 85
LBRACKET == 91
BACKSLASH == 92
RBRACKET == 93
LOWER_B == 98
LOWER_D == 100
LOWER_E == 101
LOWER_F == 102
LOWER_N == 110
LOWER_R == 114
LOWER_T == 116
LOWER_U == 117
LBRACE == 123
RBRACE == 125

(* the value of a char in a comparison; whether plain char is signed (sc)   *)
(* is the compiler's choice: signed on x86, unsigned on ARM                  *)
CharValue(c, sc) == IF sc /\ c >= 128 THEN c - 256 ELSE c

\* std::string::substr(pos, n), positions counted from 0
Substr(s, pos, n) ==
    SubSeq(s, pos + 1, IF pos + n > Len(s) THEN Len(s) ELSE pos + n)

\* std::string::operator[]: the element at size() is '\0'
At(s, i) == IF i < Len(s) THEN s[i + 1] ELSE NUL

\* std::string::npos
npos == -1

\* std::string::find of one character, from position pos
RECURSIVE Find(_, _, _)
Find(s, c, pos) ==
    IF pos >= Len(s) THEN npos
    ELSE IF s[pos + 1] = c THEN pos
    ELSE Find(s, c, pos + 1)

\* the sequences over S of at most n elements
SeqsUpTo(S, n) == UNION {[1..k -> S] : k \in 0..n}

----------------------------------------------------------------------------
(* std::string Writer::escapeString(std::string unescaped)                   *)

\* the characters with a case of their own in the switch
Escaped == {DQUOTE, BACKSLASH, SLASH, BS, FF, LF, CR, TAB}

\* what follows the backslash in the escape of c
EscapeLetter(c) ==
    CASE c = BS -> LOWER_B
      [] c = FF -> LOWER_F
      [] c = LF -> LOWER_N
      [] c = CR -> LOWER_R
      [] c = TAB -> LOWER_T
      [] OTHER -> c

\* the while loop, from position pos with `last` = lst and the stream's content so far
RECURSIVE escapeFrom(_, _, _, _, _)
escapeFrom(unescaped, pos, lst, escaped, sc) ==
    IF pos >= Len(unescaped)
    THEN [ok |-> TRUE, s |-> escaped \o Substr(unescaped, lst, pos - lst)]
    ELSE LET c == unescaped[pos + 1]
         IN IF c \in Escaped
            THEN escapeFrom(unescaped, pos + 1, pos + 1,
                            escaped \o Substr(unescaped, lst, pos - lst)
                                    \o <<BACKSLASH, EscapeLetter(c)>>, sc)
            ELSE IF CharValue(c, sc) < 32
            THEN [ok |-> FALSE, s |-> <<>>]
            ELSE escapeFrom(unescaped, pos + 1, lst, escaped, sc)

escapeString(unescaped, sc) == escapeFrom(unescaped, 0, 0, <<>>, sc)

----------------------------------------------------------------------------
(* std::string Reader::unescapeString(std::string escaped)                   *)

\* an unescape that reads \n as a carriage return
UnescapeLetterCR(c) ==
    CASE c = LOWER_B -> BS
      [] c = LOWER_F -> FF
      [] c = LOWER_N -> CR
      [] c = LOWER_R -> CR
      [] c = LOWER_T -> TAB
      [] OTHER -> c

\* the character the escape letter c stands for
UnescapeLetter(c) ==
    CASE c = LOWER_B -> BS
      [] c = LOWER_F -> FF
      [] c = LOWER_N -> LF
      [] c = LOWER_R -> CR
      [] c = LOWER_T -> TAB
      [] OTHER -> c

\* the while loop, from position pos with `last` = lst and the stream's content so far
RECURSIVE unescapeFrom(_, _, _, _)
unescapeFrom(escaped, pos, lst, unescaped) ==
    LET p == Find(escaped, BACKSLASH, pos)
    IN IF p = npos
       THEN [ok |-> TRUE, msg |-> "", s |-> unescaped \o Substr(escaped, lst, Len(escaped))]
       ELSE LET c == At(escaped, p + 1)
                u == unescaped \o Substr(escaped, lst, p - lst)
            IN IF c \in {DQUOTE, BACKSLASH, SLASH, LOWER_B, LOWER_F, LOWER_N, LOWER_R, LOWER_T}
               THEN unescapeFrom(escaped, p + 2, p + 2, u \o <<UnescapeLetter(c)>>)
               ELSE IF c = LOWER_U
               THEN [ok |-> FALSE, msg |-> "Arbitrary unicode escapes not yet supported", s |-> <<>>]
               ELSE [ok |-> FALSE, msg |-> "Invalid escape sequence in string", s |-> <<>>]

unescapeString(escaped) ==
    IF Find(escaped, BACKSLASH, 0) # npos
    THEN unescapeFrom(escaped, 0, 0, <<>>)
    ELSE [ok |-> TRUE, msg |-> "", s |-> escaped]

----------------------------------------------------------------------------
(* SpecEsc: escapeString applied to a string, unescapeString to its result  *)

MaxStr == 3

(* the eight characters escapeString escapes, two printable ones, the       *)
(* control character 0x01 and 0xC3, the first byte of a two-byte UTF-8 code  *)
EscAlphabet == Escaped \cup {LOWER_N, LOWER_U, 1, 195}

InitEsc ==
    /\ ValueInit
    /\ orig \in {StringTree(s) : s \in SeqsUpTo(EscAlphabet, MaxStr)}
    /\ file = <<>> /\ data = <<>> /\ cur = 0 /\ lastbr = 0 /\ line = 1
    /\ stack = <<>> /\ result = NoRet /\ out = <<>> /\ vals = <<>>
    /\ pc = "escape" /\ wild = FALSE

EscapeString ==
    /\ pc = "escape"
    /\ \E sc \in BOOLEAN :
          LET e == escapeString(orig.s, sc)
          IN IF e.ok
             THEN /\ out' = e.s
                  /\ pc' = "unescape"
                  /\ UNCHANGED result
             ELSE /\ result' = Thrown(0, 0, "Arbitrary unicode escapes not yet supported")
                  /\ pc' = "thrown"
                  /\ UNCHANGED out
    /\ UNCHANGED <<file, data, cur, lastbr, line, stack, vals, orig, wild>>
    /\ UNCHANGED valueVars

UnescapeString ==
    /\ pc = "unescape"
    /\ LET u == unescapeString(out)
       IN result' = IF u.ok THEN Returned(StringTree(u.s))
                    ELSE Thrown(line, cur - lastbr, u.msg)
    /\ pc' = "unescaped"
    /\ UNCHANGED <<file, data, cur, lastbr, line, stack, out, vals, orig, wild>>
    /\ UNCHANGED valueVars

NextEsc == EscapeString \/ UnescapeString

SpecEsc == InitEsc /\ [][NextEsc]_vars

(* C9: unescapeString(escapeString(s)) = s for every string s made of the   *)
(* eight escaped characters and printable ones, in any order.               *)
C9_UnescapeInvertsEscape ==
    pc = "unescaped" => result = Returned(StringTree(orig.s))

\* a string with a backslash, a newline and a plain n has made the round trip
C9_Witness ==
    /\ pc = "unescaped"
    /\ {BACKSLASH, LF, LOWER_N} \subseteq {orig.s[i] : i \in 1..Len(orig.s)}
    /\ result.kind = "value"

----------------------------------------------------------------------------
(* Numerals: operator<< on int, unsigned and double; atoi and atof           *)

\* the decimal digits of n >= 0
RECURSIVE Digits(_)
Digits(n) == IF n < 10 THEN <<DIGIT0 + n>> ELSE Digits(n \div 10) \o <<DIGIT0 + (n % 10)>>

\* out << int
IntText(n) == IF n < 0 THEN <<MINUS>> \o Digits(-n) ELSE Digits(n)

(* out << unsigned.  A TUInteger is held as the int with the same 32 bits;  *)
(* a negative pattern n stands for 2^32 + n, whose digits are computed from *)
(* its 16-bit halves.                                                        *)
UIntText(n) ==
    IF n >= 0 THEN Digits(n)
    ELSE LET hi == 65536 + (n \div 65536)
             lo == n % 65536
             low == (hi % 10) * 65536 + lo
         IN Digits((hi \div 10) * 65536 + (low \div 10)) \o <<DIGIT0 + (low % 10)>>

\* n zeros
Zeros(n) == [i \in 1..n |-> DIGIT0]

(* out << double with the stream's default format (six significant digits, *)
(* no trailing zeros, no point for a whole number), for a decimal of at most *)
(* six digits that needs no exponent.                                        *)
RealText(r) ==
    LET ds == Digits(r.m)
        pad == IF Len(ds) < r.k + 1 THEN Zeros(r.k + 1 - Len(ds)) \o ds ELSE ds
        whole == SubSeq(pad, 1, Len(pad) - r.k)
        frac == SubSeq(pad, Len(pad) - r.k + 1, Len(pad))
    IN (IF r.neg THEN <<MINUS>> ELSE <<>>) \o whole
          \o (IF r.k = 0 THEN <<>> ELSE <<DOT>> \o frac)

IsDigit(c) == c \in DIGIT0..DIGIT9

\* the digits s begins with at position pos (from 0)
RECURSIVE DigitRun(_, _)
DigitRun(s, pos) ==
    IF pos < Len(s) /\ IsDigit(s[pos + 1])
    THEN <<s[pos + 1]>> \o DigitRun(s, pos + 1)
    ELSE <<>>

\* the number a run of digits denotes
RECURSIVE NatOf(_)
NatOf(ds) ==
    IF ds = <<>> THEN 0
    ELSE NatOf(SubSeq(ds, 1, Len(ds) - 1)) * 10 + (ds[Len(ds)] - DIGIT0)

(* the number a run of digits denotes, kept in 16-bit halves: its low 32     *)
(* bits, and whether it needs more than 32                                   *)
RECURSIVE Wide(_)
Wide(ds) ==
    IF ds = <<>> THEN [hi |-> 0, lo |-> 0, over |-> FALSE]
    ELSE LET w == Wide(SubSeq(ds, 1, Len(ds) - 1))
             low == w.lo * 10 + (ds[Len(ds)] - DIGIT0)
             high == w.hi * 10 + (low \div 65536)
         IN [hi |-> high % 65536, lo |-> low % 65536, over |-> w.over \/ high >= 65536]

(* What atoi makes of a numeral no int can hold, which the language leaves  *)
(* undefined: the low 32 bits of the number where long has 64 bits and the   *)
(* result is cut to int, the nearest bound where long has 32 bits.           *)
Overflow == {"wrap", "clamp"}

\* atoi: an optional sign and the digits after it
atoi(s, o) ==
    LET signed == At(s, 0) \in {PLUS, MINUS}
        minus == At(s, 0) = MINUS
        w == Wide(DigitRun(s, IF signed THEN 1 ELSE 0))
        fits == ~w.over /\ (w.hi < 32768 \/ (minus /\ w.hi = 32768 /\ w.lo = 0))
        bits == IF w.hi >= 32768 THEN (w.hi - 65536) * 65536 + w.lo
                ELSE w.hi * 65536 + w.lo
    IN IF fits \/ o = "wrap"
       THEN IF minus /\ bits # -2147483647 - 1 THEN -bits ELSE bits
       ELSE IF minus THEN -2147483647 - 1 ELSE 2147483647

\* a decimal without trailing zeros in its fraction
RECURSIVE Normal(_)
Normal(r) ==
    IF r.k > 0 /\ r.m % 10 = 0
    THEN Normal([r EXCEPT !.m = r.m \div 10, !.k = r.k - 1])
    ELSE r

\* atof: an optional sign, digits, an optional point and digits; 0.0 without a digit
atof(s) ==
    LET signed == At(s, 0) \in {PLUS, MINUS}
        from == IF signed THEN 1 ELSE 0
        whole == DigitRun(s, from)
        dot == from + Len(whole)
        frac == IF At(s, dot) = DOT THEN DigitRun(s, dot + 1) ELSE <<>>
    IN IF whole = <<>> /\ frac = <<>> THEN NoReal
       ELSE Normal([neg |-> At(s, 0) = MINUS, m |-> NatOf(whole \o frac), k |-> Len(frac)])

----------------------------------------------------------------------------
(* void Writer::writeValue(Value *value): what it appends to the stream, and *)
(* how it ends: "ok", "thrown" (escapeString threw) or "wild" (value is a    *)
(* null pointer).                                                            *)

Wrote(s) == [s |-> s, end |-> "ok"]

\* the text " : " between a member's key and its value
KeySep == <<DQUOTE, SP, COLON, SP>>

RECURSIVE writeValue(_)
RECURSIVE writeElements(_, _)
RECURSIVE writeMembers(_, _)

\* the for loop of case TARRAY, from element i
writeElements(a, i) ==
    IF i > Len(a) THEN Wrote(<<RBRACKET>>)
    ELSE LET w == writeValue(a[i])
         IN IF w.end # "ok" THEN w
            ELSE LET rest == writeElements(a, i + 1)
                 IN [s |-> w.s \o <<COMMA, SP>> \o rest.s, end |-> rest.end]

\* the for loop of case TOBJECT, from member i
writeMembers(o, i) ==
    IF i > Len(o) THEN Wrote(<<RBRACE>>)
    ELSE LET w == writeValue(o[i].val)
             head == <<DQUOTE>> \o o[i].key \o KeySep
         IN IF w.end # "ok" THEN [s |-> head \o w.s, end |-> w.end]
            ELSE LET rest == writeMembers(o, i + 1)
                 IN [s |-> head \o w.s \o <<COMMA, LF>> \o rest.s, end |-> rest.end]

writeValue(v) ==
    CASE v.type = "TINTEGER" -> Wrote(IntText(v.n))
      [] v.type = "TUINTEGER" -> Wrote(UIntText(v.n) \o <<LOWER_U>>)
      [] v.type = "TREAL" -> Wrote(RealText(v.r))
      [] v.type = "TSTRING" ->
           \* the strings of Trees hold no byte above 0x7F: either char will do
           LET e == escapeString(v.s, TRUE)
           IN IF e.ok THEN Wrote(e.s) ELSE [s |-> <<>>, end |-> "thrown"]
      [] v.type = "TOBJECT" ->
           LET w == writeMembers(v.o, 1)
           IN [s |-> <<LBRACE, LF>> \o w.s, end |-> w.end]
      [] v.type = "TARRAY" ->
           LET w == writeElements(v.a, 1)
           IN [s |-> <<LBRACKET>> \o w.s, end |-> w.end]
      [] v.type = "TNULL" -> Wrote(<<UPPER_N, UPPER_U, UPPER_L, UPPER_L>>)
      \* the switch has no case TBOOL
      [] v.type = "TBOOL" -> Wrote(<<>>)
      \* value->type through a null pointer
      [] OTHER -> [s |-> <<>>, end |-> "wild"]

\* void Writer::putValue(Value *value) { writeValue(value); out << '\n'; }
putValue(v) ==
    LET w == writeValue(v)
    IN IF w.end = "ok" THEN Wrote(w.s \o <<LF>>) ELSE w

----------------------------------------------------------------------------
(* The Reader.  A call in progress is a stack of frames, the running one on *)
(* top; a frame below it waits at `at` for the call it made.                 *)

\* char *key = NULL
NoKey == -1

Frame(fn) ==
    [fn |-> fn, at |-> "", start |-> 0, real |-> FALSE, exp |-> FALSE,
     key |-> NoKey, keyfound |-> FALSE, acc |-> NoTree]

\* the Reader's fields and the state of the call, as one record
Here ==
    [data |-> data, cur |-> cur, lastbr |-> lastbr, line |-> line,
     stack |-> stack, result |-> result, pc |-> pc, wild |-> wild]

Top(S) == S.stack[Len(S.stack)]
SetTop(S, f) == [S EXCEPT !.stack[Len(S.stack)] = f]
Push(S, f) == [S EXCEPT !.stack = Append(@, f)]
Advance(S, n) == [S EXCEPT !.cur = @ + n]
\* *cur = '\0'
Terminate(S) == [S EXCEPT !.data[S.cur + 1] = NUL]

\* cur points into the buffer, terminator included
InBounds(S) == S.cur >= 0 /\ S.cur < Len(S.data)
\* *cur
Byte(S) == S.data[S.cur + 1]
\* a read through cur outside the buffer
OutOfBounds(S) == [S EXCEPT !.wild = TRUE, !.stack = <<>>, !.pc = "wild"]

\* the C string at offset off of the buffer
CStr(d, off) == Substr(d, off, Find(d, NUL, off) - off)

\* throw parser_error(line, cur-lastbr, msg): every call in progress is abandoned
Throw(S, msg) ==
    [S EXCEPT !.stack = <<>>, !.result = Thrown(S.line, S.cur - S.lastbr, msg),
              !.pc = "returned"]

\* std::string operator< on the bytes
RECURSIVE KeyLess(_, _)
KeyLess(a, b) ==
    IF b = <<>> THEN FALSE
    ELSE IF a = <<>> THEN TRUE
    ELSE IF a[1] # b[1] THEN a[1] < b[1]
    ELSE KeyLess(Tail(a), Tail(b))

\* object->setMember(key, val): the map keeps one entry per key, in key order
PutMember(o, key, v) ==
    IF \E i \in 1..Len(o) : o[i].key = key
    THEN [i \in 1..Len(o) |-> IF o[i].key = key THEN [key |-> key, val |-> v] ELSE o[i]]
    ELSE LET n == Cardinality({i \in 1..Len(o) : KeyLess(o[i].key, key)})
         IN SubSeq(o, 1, n) \o <<[key |-> key, val |-> v]>> \o SubSeq(o, n + 1, Len(o))

(* The running call returns v (NullPtr for NULL).  The driver gets it, or   *)
(* the caller goes on after its call: readArray appends the element and     *)
(* throws on NULL, readObject stores the member's value or notes the key.   *)
Return(S, v) ==
    LET rest == SubSeq(S.stack, 1, Len(S.stack) - 1)
        S1 == [S EXCEPT !.stack = rest]
    IN IF rest = <<>>
       THEN [S1 EXCEPT !.result = IF v = NullPtr THEN EndOfInput ELSE Returned(v),
                       !.pc = "returned"]
       ELSE LET c == Top(S1)
            IN CASE c.at = "elem" ->
                      IF v = NullPtr THEN Throw(S1, "Malformed array elements")
                      ELSE SetTop(S1, [c EXCEPT !.at = "", !.acc.a = Append(@, v)])
                 [] c.at = "val" ->
                      SetTop(S1, [c EXCEPT !.at = "", !.key = NoKey, !.keyfound = FALSE,
                                           !.acc.o = PutMember(@, CStr(S1.data, c.key), v)])
                 [] OTHER ->
                      SetTop(S1, [c EXCEPT !.at = "", !.keyfound = TRUE])

Whitespace == {SP, LF, CR, TAB}
NumberStart == {MINUS, PLUS, DOT} \cup (DIGIT0..DIGIT9)

\* "Unexpected character " + *cur is the literal's address plus the char's code
UnexpectedCharacter == "\"Unexpected character \" + *cur"
\* *cur + " found where value expected", likewise
FoundWhereValueExpected == "*cur + \" found where value expected\""

\* Value *Reader::getValue(): one iteration of while (*cur)
getValue(S) ==
    LET c == Byte(S)
    IN CASE c = NUL -> Return(S, NullPtr)
         [] c = LF -> Advance([S EXCEPT !.line = @ + 1, !.lastbr = S.cur + 1], 1)
         [] c = CR -> Advance([S EXCEPT !.lastbr = S.cur + 1], 1)
         [] c \in {SP, TAB} -> Advance(S, 1)
         [] c \in NumberStart -> SetTop(S, [Frame("readNumber") EXCEPT !.start = S.cur])
         [] c = LBRACE ->
              Advance(SetTop(S, [Frame("readObject") EXCEPT !.acc = ObjectTree(<<>>)]), 1)
         [] c = LBRACKET ->
              Advance(SetTop(S, [Frame("readArray") EXCEPT !.acc = ArrayTree(<<>>)]), 1)
         [] c = DQUOTE ->
              Advance(SetTop(S, [Frame("readString") EXCEPT !.start = S.cur + 1]), 1)
         [] c = UPPER_N ->
              IF /\ At(S.data, S.cur + 1) = UPPER_U
                 /\ At(S.data, S.cur + 2) = UPPER_L
                 /\ At(S.data, S.cur + 3) = UPPER_L
              THEN Return(Advance(S, 4), NullTree)
              ELSE Throw(S, UnexpectedCharacter)
         [] c = SLASH ->
              IF At(S.data, S.cur + 1) = SLASH
              THEN Advance(SetTop(S, Frame("comment")), 1)
              ELSE Throw(S, "Malformed comment")
         [] OTHER -> Throw(S, UnexpectedCharacter)

\* one iteration of while (*(cur++) != '\n') { }
comment(S) ==
    IF Byte(S) = LF THEN Advance(SetTop(S, Frame("getValue")), 1) ELSE Advance(S, 1)

\* Value* Reader::readNumber(): one iteration of while (*cur); o is what atoi
\* does with a numeral that does not fit an int
readNumber(S, o) ==
    LET c == Byte(S)
        f == Top(S)
        text == Substr(S.data, f.start, S.cur - f.start)
    IN CASE c = NUL -> Throw(S, "Reached EOF while parsing numeric")
         [] c = LOWER_E -> SetTop(S, [f EXCEPT !.exp = TRUE])
         [] c = LOWER_U -> Return(Advance(Terminate(S), 1), UIntTree(atoi(text, o)))
         [] c = LOWER_D -> Return(Advance(Terminate(S), 1), RealTree(atof(text)))
         [] c = DOT -> Advance(SetTop(S, [f EXCEPT !.real = TRUE]), 1)
         [] c \in NumberStart \ {DOT} -> Advance(S, 1)
         [] OTHER -> Return(S, IF f.real \/ f.exp THEN RealTree(atof(text))
                                ELSE IntTree(atoi(text, o)))

\* Value* Reader::readString(): one iteration of while (*cur)
readString(S) ==
    LET c == Byte(S)
        f == Top(S)
    IN CASE c = NUL -> Throw(S, "Reached EOF while parsing string")
         [] c = BACKSLASH -> Advance(S, 2)
         [] c = DQUOTE ->
              LET S1 == Advance(Terminate(S), 1)
                  u == unescapeString(CStr(S1.data, f.start))
              IN IF u.ok THEN Return(S1, StringTree(u.s)) ELSE Throw(S1, u.msg)
         [] OTHER -> Advance(S, 1)

\* Value* Reader::readObject(): one iteration of while (*cur)
readObject(S) ==
    LET c == Byte(S)
        f == Top(S)
    IN CASE c = NUL -> Throw(S, "Reached EOF while parsing object")
         [] c \in Whitespace ->
              IF f.key # NoKey /\ ~f.keyfound
              THEN Advance(Terminate(SetTop(S, [f EXCEPT !.keyfound = TRUE])), 1)
              ELSE Advance(S, 1)
         [] c = RBRACE ->
              IF f.key # NoKey
              THEN Throw(Advance(S, 1), "} found where value expected")
              ELSE Return(Advance(S, 1), f.acc)
         [] c = COMMA ->
              IF f.key # NoKey
              THEN Throw(Advance(S, 1), ", found where value expected")
              ELSE Advance(S, 1)
         [] c = COLON ->
              IF f.key = NoKey
              THEN Throw(S, ": found where field expected")
              ELSE LET S1 == IF ~f.keyfound THEN Terminate(S) ELSE S
                   IN Push(Advance(SetTop(S1, [f EXCEPT !.at = "val"]), 1), Frame("getValue"))
         [] c = DQUOTE ->
              \* cur++; key = cur; delete readString(), which begins with start = ++cur
              Push(Advance(SetTop(S, [f EXCEPT !.at = "key", !.key = S.cur + 1]), 2),
                   [Frame("readString") EXCEPT !.start = S.cur + 2])
         [] OTHER ->
              IF f.keyfound
              THEN Throw(S, FoundWhereValueExpected)
              ELSE Advance(SetTop(S, [f EXCEPT !.key = IF @ = NoKey THEN S.cur ELSE @]), 1)

\* Value* Reader::readArray(): one iteration of while (*cur)
readArray(S) ==
    LET c == Byte(S)
        f == Top(S)
    IN CASE c = NUL -> Throw(S, "Reached EOF while parsing array")
         [] c \in Whitespace \cup {COMMA} -> Advance(S, 1)
         [] c = RBRACKET -> Return(Advance(S, 1), f.acc)
         [] OTHER -> Push(SetTop(S, [f EXCEPT !.at = "elem"]), Frame("getValue"))

----------------------------------------------------------------------------
(* SpecRW: a stream, a Reader on it, and the loop                            *)
(*     while (value = reader.getValue()) { writer.putValue(value); ... }     *)
(* The stream holds a text of the model, or what putValue wrote for a tree.  *)

MaxText == 3
MaxElems == 2
MaxLit == 2

\* the exponent markers of a numeral: e, which readNumber has a case for, and E
ExponentMarkers == {LOWER_E, 69}

\* the bytes a text of the model is made of
TextAlphabet ==
    {LBRACKET, RBRACKET, LBRACE, RBRACE, COLON, COMMA, DQUOTE, BACKSLASH, SLASH,
     UPPER_N, DIGIT0 + 1, DOT, MINUS, LOWER_U, LOWER_D, SP, LF} \cup ExponentMarkers

\* string literals: a quote, the escaped form of a short string, a quote
StringLiterals ==
    {<<DQUOTE>> \o escapeString(x, TRUE).s \o <<DQUOTE>> :
        x \in SeqsUpTo({LOWER_N, LF, BACKSLASH, DQUOTE}, MaxLit)}

(* objects with a member that has no value, the key bare or quoted and the  *)
(* closing brace right after the key, after the colon or after a blank; and  *)
(* objects with a colon where a key should be                                *)
MalformedObjects ==
    {<<LBRACE>> \o k \o t :
        k \in {<<LOWER_U>>, <<DQUOTE, LOWER_U, DQUOTE>>},
        t \in {<<RBRACE>>, <<COLON, RBRACE>>, <<COLON, SP, RBRACE>>}}
      \cup {<<LBRACE, COLON, RBRACE>>, <<LBRACE, SP, COLON, DIGIT0 + 1, RBRACE>>}

\* the text of a member: the key k as a string literal, a colon, the digit v
Member(k, v) == <<DQUOTE>> \o escapeString(k, TRUE).s \o <<DQUOTE, COLON, DIGIT0 + v>>

(* objects with one member under a quoted key, the empty key and keys that  *)
(* begin with an escape among them, and an object with the same key twice    *)
QuotedKeyObjects ==
    {<<LBRACE>> \o Member(k, 1) \o <<RBRACE>> : k \in SeqsUpTo({LOWER_N, LF}, MaxLit)}
      \cup {<<LBRACE>> \o Member(<<LOWER_N>>, 1) \o <<COMMA>> \o Member(<<LOWER_N>>, 2)
                \o <<RBRACE>>}

Texts ==
    SeqsUpTo(TextAlphabet, MaxText) \cup StringLiterals \cup MalformedObjects
      \cup QuotedKeyObjects

Leaves ==
    {IntTree(0), IntTree(12), IntTree(-7), UIntTree(3),
     RealTree([neg |-> FALSE, m |-> 15, k |-> 1]), RealTree([neg |-> FALSE, m |-> 2, k |-> 0]),
     BoolTree(0), BoolTree(1),
     StringTree(<<>>), StringTree(<<LOWER_N>>), StringTree(<<DIGIT0 + 1>>),
     NullTree}

\* unsigned values at and beyond the largest int: 2^31 - 1, 2^31, 2^32 - 1
LargeUnsigned == {UIntTree(2147483647), UIntTree(-2147483647 - 1), UIntTree(-1)}

Trees ==
    Leaves \cup LargeUnsigned
      \cup {ArrayTree(a) : a \in SeqsUpTo(Leaves \cup {ArrayTree(<<>>)}, MaxElems)}
      \cup {ObjectTree(<<[key |-> k, val |-> v]>>) : k \in {<<>>, <<LOWER_N>>}, v \in Leaves}

InitRW ==
    /\ ValueInit
    /\ \/ file \in Texts /\ orig = NoTree /\ pc = "ctor"
       \/ file = <<>> /\ orig \in Trees /\ pc = "serialize"
    /\ data = <<>> /\ cur = 0 /\ lastbr = 0 /\ line = 0
    /\ stack = <<>> /\ result = NoRet /\ out = <<>> /\ vals = <<>> /\ wild = FALSE

\* writer.putValue(orig) on the stream the Reader will be given
Serialize ==
    /\ pc = "serialize"
    /\ LET w == putValue(orig)
       IN /\ file' = w.s
          /\ pc' = IF w.end = "ok" THEN "ctor" ELSE "done"
    /\ UNCHANGED <<data, cur, lastbr, line, stack, result, out, vals, orig, wild>>
    /\ UNCHANGED valueVars

\* Reader::Reader(std::istream &in)
ReaderCtor ==
    /\ pc = "ctor"
    /\ data' = file \o <<NUL>>
    /\ cur' = 0
    /\ line' = 1
    /\ lastbr' = 0
    /\ pc' = "loop"
    /\ UNCHANGED <<file, stack, result, out, vals, orig, wild>>
    /\ UNCHANGED valueVars

\* the driver calls reader.getValue()
CallGetValue ==
    /\ pc = "loop"
    /\ stack' = <<Frame("getValue")>>
    /\ pc' = "parse"
    /\ UNCHANGED <<file, data, cur, lastbr, line, result, out, vals, orig, wild>>
    /\ UNCHANGED valueVars

\* one iteration of the loop of the running function fn
Step(fn, S) ==
    /\ pc = "parse" /\ stack # <<>> /\ Top(Here).fn = fn
    /\ data' = S.data /\ cur' = S.cur /\ lastbr' = S.lastbr /\ line' = S.line
    /\ stack' = S.stack /\ result' = S.result /\ pc' = S.pc /\ wild' = S.wild
    /\ UNCHANGED <<file, out, vals, orig>>
    /\ UNCHANGED valueVars

GetValueStep ==
    Step("getValue", IF InBounds(Here) THEN getValue(Here) ELSE OutOfBounds(Here))
CommentStep ==
    Step("comment", IF InBounds(Here) THEN comment(Here) ELSE OutOfBounds(Here))
ReadNumberStep ==
    \E o \in Overflow :
        Step("readNumber", IF InBounds(Here) THEN readNumber(Here, o) ELSE OutOfBounds(Here))
ReadStringStep ==
    Step("readString", IF InBounds(Here) THEN readString(Here) ELSE OutOfBounds(Here))
ReadObjectStep ==
    Step("readObject", IF InBounds(Here) THEN readObject(Here) ELSE OutOfBounds(Here))
ReadArrayStep ==
    Step("readArray", IF InBounds(Here) THEN readArray(Here) ELSE OutOfBounds(Here))

\* getValue returned a value: writer.putValue(value)
PutValue ==
    /\ pc = "returned" /\ result.kind = "value"
    /\ LET w == putValue(result.val)
       IN /\ out' = out \o w.s
          /\ wild' = (w.end = "wild")
          /\ pc' = CASE w.end = "ok" -> "loop"
                     [] w.end = "wild" -> "wild"
                     [] OTHER -> "done"
    /\ vals' = Append(vals, result.val)
    /\ UNCHANGED <<file, data, cur, lastbr, line, stack, result, orig>>
    /\ UNCHANGED valueVars

\* getValue returned NULL, which ends the loop, or threw
Stop ==
    /\ pc = "returned" /\ result.kind \in {"eof", "error"}
    /\ pc' = "done"
    /\ UNCHANGED <<file, data, cur, lastbr, line, stack, result, out, vals, orig, wild>>
    /\ UNCHANGED valueVars

NextRW ==
    \/ Serialize
    \/ ReaderCtor
    \/ CallGetValue
    \/ GetValueStep
    \/ CommentStep
    \/ ReadNumberStep
    \/ ReadStringStep
    \/ ReadObjectStep
    \/ ReadArrayStep
    \/ PutValue
    \/ Stop

SpecRW == InitRW /\ [][NextRW]_vars

----------------------------------------------------------------------------
(* Properties of the Reader and the Writer *)

\* the tree is an object or holds one
RECURSIVE HasObject(_)
HasObject(t) == t.type = "TOBJECT" \/ \E i \in 1..Len(t.a) : HasObject(t.a[i])

(* C8: for a tree without object nodes, the first getValue on the text      *)
(* putValue wrote for the tree returns a value equal to the tree.            *)
C8_RoundTrip ==
    (orig # NoTree /\ ~HasObject(orig) /\ vals = <<>> /\ pc \in {"returned", "wild"})
       => result = Returned(orig)

(* C10: a stream that holds one string literal is parsed and written back   *)
(* as the same text, quotes included, followed by putValue's newline.        *)
C10_StringWrittenQuoted ==
    (orig = NoTree /\ file \in StringLiterals /\ pc \in {"done", "wild"})
       => out = file \o <<LF>>

(* C11: every unsigned value u, up to 2^32 - 1, is written as its decimal   *)
(* text followed by the marker u, and the first getValue on that text        *)
(* returns an unsigned Value equal to u.                                     *)
C11_UnsignedRoundTrip ==
    (orig.type = "TUINTEGER" /\ vals = <<>> /\ pc \in {"returned", "wild"})
       => /\ file = UIntText(orig.n) \o <<LOWER_U, LF>>
          /\ result = Returned(orig)

(* C12: every call of getValue runs to completion.  While the call is       *)
(* running, the Reader can take a step that changes its state: no iteration  *)
(* of a loop leaves the cursor, the flags and the call stack as they were,   *)
(* which a loop without other input would then repeat for ever.              *)
C12_GetValueCompletes ==
    pc = "parse" => ENABLED <<NextRW>>_vars

\* the line of byte offset i of text d: 1 + the newlines before it
LineAt(d, i) == 1 + Cardinality({j \in 1..i : d[j] = LF})

\* the column of byte offset i: its distance from the byte after the last line break
ColumnAt(d, i) ==
    LET breaks == {j \in 1..i : d[j] \in {LF, CR}}
    IN i - (IF breaks = {} THEN 0 ELSE CHOOSE j \in breaks : \A k \in breaks : k <= j)

\* arrays of numerals cut off before the closing bracket
TruncatedArrays ==
    {<<LBRACKET>> \o t : t \in SeqsUpTo({DIGIT0 + 1, COMMA, SP, LF}, MaxText - 1)}

(* C13: an array whose text ends before the closing bracket - after a       *)
(* comma, after an element or inside one - fails with "Reached EOF while     *)
(* parsing array", at the line and the column of the end of the text.        *)
C13_TruncatedArrayError ==
    (file \in TruncatedArrays /\ orig = NoTree /\ pc \in {"returned", "wild"})
       => result = Thrown(LineAt(file, Len(file)), ColumnAt(file, Len(file)),
                          "Reached EOF while parsing array")

\* the messages of the errors for a brace or a colon in the wrong place
MalformedObject == {"} found where value expected", ": found where field expected"}

(* C14: an object fails with one of the malformed-object errors when } is   *)
(* met after a key that has no value yet, with or without a colon after the  *)
(* key, and when : is met with no pending key.                               *)
C14_MalformedObjectError ==
    (file \in MalformedObjects /\ orig = NoTree /\ pc \in {"returned", "wild"})
       => result.kind = "error" /\ result.msg \in MalformedObject

(* C15: an error of the Reader carries the line of the cursor, 1 + the      *)
(* newlines of the input before it, and its column, the distance from the    *)
(* byte after the last line break, wherever those newlines are.              *)
C15_ErrorPosition ==
    (orig = NoTree /\ pc = "returned" /\ result.kind = "error")
       => result.line = LineAt(file, cur) /\ result.pos = ColumnAt(file, cur)

(* Every byte of text d from offset i to its end is insignificant: a        *)
(* blank, a line break, or part of a // comment (c: offset i is inside one). *)
RECURSIVE Blank(_, _, _)
Blank(d, i, c) ==
    IF i >= Len(d) THEN TRUE
    ELSE IF c THEN Blank(d, i + 1, d[i + 1] # LF)
    ELSE IF d[i + 1] \in Whitespace THEN Blank(d, i + 1, FALSE)
    ELSE IF d[i + 1] = SLASH /\ At(d, i + 1) = SLASH THEN Blank(d, i + 2, TRUE)
    ELSE FALSE

\* a top-level getValue is looking for the next value, and nothing significant is left
NothingLeft ==
    /\ pc = "parse" /\ Len(stack) = 1 /\ stack[1].fn \in {"getValue", "comment"}
    /\ cur <= Len(file) /\ Blank(file, cur, stack[1].fn = "comment")

(* C16: getValue returns the end-of-input signal if and only if every byte  *)
(* from the cursor to the terminator is whitespace or part of a // comment.  *)
(* Step by step: a call with nothing significant left keeps skipping inside  *)
(* the buffer until it returns the signal, and the signal is returned by no  *)
(* other call.                                                               *)
C16_EndOfInputIffNothingLeft ==
    [][/\ NothingLeft => (NothingLeft' \/ (pc' = "returned" /\ result' = EndOfInput))
       /\ (pc = "parse" /\ pc' = "returned" /\ result' = EndOfInput) => NothingLeft]_vars

\* the string holds a control character that has no escape
Unsupported(s) ==
    \E i \in 1..Len(s) : s[i] < 32 /\ s[i] \notin {BS, FF, LF, CR, TAB}

\* the text of s with each of the eight escaped characters as its escape
RECURSIVE EscapedText(_)
EscapedText(s) ==
    IF s = <<>> THEN <<>>
    ELSE (IF Head(s) \in Escaped THEN <<BACKSLASH, EscapeLetter(Head(s))>> ELSE <<Head(s)>>)
            \o EscapedText(Tail(s))

(* C17: escapeString throws if and only if the string holds a control       *)
(* character other than \b, \f, \n, \r and \t; otherwise its result is the  *)
(* string with the escapes in place and every other byte, 0x80-0xFF          *)
(* included, unchanged.                                                      *)
C17_ThrowsIffControlCharacter ==
    /\ pc = "thrown" => Unsupported(orig.s)
    /\ pc \in {"unescape", "unescaped"}
          => ~Unsupported(orig.s) /\ out = EscapedText(orig.s)

\* 1 if the line t ends with the suffix u or d after at least one other byte
Suffixed(t) == IF Len(t) >= 3 /\ t[Len(t) - 1] \in {LOWER_U, LOWER_D} THEN 1 ELSE 0

\* the line without its newline and its suffix
Body(t) == SubSeq(t, 1, Len(t) - 1 - Suffixed(t))

\* the text is one line holding a numeral: signs, points, exponent markers, a digit at least
IsNumeral(t) ==
    /\ Len(t) >= 2 /\ t[Len(t)] = LF
    /\ t[1] \in NumberStart
    /\ \A i \in 1..Len(Body(t)) : Body(t)[i] \in NumberStart \cup ExponentMarkers
    /\ \E i \in 1..Len(Body(t)) : IsDigit(Body(t)[i])

\* the tag the rules give the numeral
NumeralTag(t) ==
    CASE Suffixed(t) = 1 /\ t[Len(t) - 1] = LOWER_U -> "TUINTEGER"
      [] Suffixed(t) = 1 /\ t[Len(t) - 1] = LOWER_D -> "TREAL"
      [] \E i \in 1..Len(Body(t)) : Body(t)[i] \in {DOT} \cup ExponentMarkers -> "TREAL"
      [] OTHER -> "TINTEGER"

(* C18: readNumber gives a numeral with the suffix u the tag unsigned and   *)
(* one with the suffix d the tag real, the cursor past the suffix; without   *)
(* a suffix the tag is real if the numeral holds a point or an exponent      *)
(* marker, e or E, and integer otherwise.                                    *)
C18_NumeralTag ==
    (IsNumeral(file) /\ vals = <<>> /\ pc = "returned")
       => /\ result.kind = "value"
          /\ result.val.type = NumeralTag(file)
          /\ Suffixed(file) = 1 => cur = Len(file) - 1

\* the object with the one member k : v
OneMember(k, v) == ObjectTree(<<[key |-> k, val |-> IntTree(v)]>>)

(* C19: a member written with a quoted key is stored under the string the   *)
(* key's literal denotes, escapes expanded - the empty key and keys that     *)
(* begin with an escape included - and a later member with the same key      *)
(* replaces the earlier value.                                               *)
C19_QuotedKey ==
    (file \in QuotedKeyObjects /\ vals = <<>> /\ pc \in {"returned", "wild"})
       => /\ \A k \in SeqsUpTo({LOWER_N, LF}, MaxLit) :
                file = <<LBRACE>> \o Member(k, 1) \o <<RBRACE>>
                   => result = Returned(OneMember(k, 1))
          /\ file = <<LBRACE>> \o Member(<<LOWER_N>>, 1) \o <<COMMA>>
                        \o Member(<<LOWER_N>>, 2) \o <<RBRACE>>
                   => result = Returned(OneMember(<<LOWER_N>>, 2))

(* C20: the cursor stays between the start of the buffer and its terminator, *)
(* the last byte of data, and never moves backwards: every step leaves it at *)
(* an offset from its old one up to the terminator's.                        *)
C20_CursorInBuffer ==
    [][data' # <<>> => cur' \in cur..(Len(data') - 1)]_vars

====
